---------------------------- MODULE Spec2Model ----------------------------
(***************************************************************************)
(* airspy-fmradion: the stereo pilot phase-locked loop (FmDecode.cpp), the *)
(* three-thread producer / worker / consumer pipeline and the start-up     *)
(* computation of the output buffer length (main.cpp).                     *)
(*                                                                         *)
(* Real-valued quantities are kept as scaled integers.  Phase and          *)
(* frequency are counted in units of 1/TwoPi of a turn; the low-pass       *)
(* filtered in-phase level and the atan2 phase error of a sample are       *)
(* real-valued functions of the whole input history, so every sample of a  *)
(* block is given by the pair of values the filters produce for it.        *)
(***************************************************************************)
EXTENDS Integers, Sequences, FiniteSets, TLC

(***************************************************************************)
(* Bounds of the model.                                                    *)
(***************************************************************************)
\* largest block handed to PilotPhaseLock::process
MaxN == 2
\* samples fed to the PLL in one run
MaxSamples == 8
\* m_lock_delay = int(20.0 / bandwidth), scaled down
m_lock_delay == 3
\* pilot_frequency (19000 pilot periods per PPS), scaled down
pilot_frequency == 2

(***************************************************************************)
(* Program constants, in the integer scale of the model.                   *)
(***************************************************************************)
\* 2.0 * M_PI in phase units
TwoPi == 4
\* freq * 2 * pi: nominal pilot frequency in phase units per sample
freq == 2
\* bandwidth * 2 * pi
bandwidth == 1
\* valid signal threshold
m_minsignal == 1
\* loop filter taps: b0, and b1 = -b0 * q1 with 0 < q1 < 1
m_loopfilter_b0 == 2
m_loopfilter_b1 == -1
\* initial value of the block minimum
PilotLevelStart == 1000

m_minfreq == freq - bandwidth
m_maxfreq == freq + bandwidth

Min(a, b) == IF a < b THEN a ELSE b
Max(a, b) == IF a > b THEN a ELSE b

\* Floating point: the one value that is not a number, and the operations
\* the PLL applies to values that may be it.  Every comparison with NaN is false.
NaN == 1000 * 1000 * 1000
IsNaN(v) == v = NaN
Less(a, b) == (~IsNaN(a)) /\ (~IsNaN(b)) /\ a < b
Leq(a, b) == (~IsNaN(a)) /\ (~IsNaN(b)) /\ a <= b
Add(a, b) == IF IsNaN(a) \/ IsNaN(b) THEN NaN ELSE a + b
Mul(a, b) == IF IsNaN(a) \/ IsNaN(b) THEN NaN ELSE a * b
\* std::min(a, b) is (b < a) ? b : a;  std::max(a, b) is (a < b) ? b : a
StdMin(a, b) == IF Less(b, a) THEN b ELSE a
StdMax(a, b) == IF Less(a, b) THEN b ELSE a

VARIABLES
  pll,        \* the fields of PilotPhaseLock
  pll_obs,    \* observation of the PLL's history (not program state)
  stop_flag,             \* static std::atomic_bool stop_flag
  source_buffer,         \* DataBuffer<IQSample> source_buffer
  output_buffer,         \* DataBuffer<Sample> output_buffer
  audio_output,          \* the AudioOutput: kind of sink, m_error set, m_zombie
  buf_minfill,           \* third argument of write_output_data
  src,                   \* the source thread: "run" or "done", and blocks pushed
  main_pc,               \* position of main (the worker)
  block,                 \* loop counter of the main loop
  iqsamples,             \* size of the IQ block pulled in this iteration (0 outside it)
  audiosamples,          \* SampleVector audiosamples: [blk, n]
  inbuf_length_warning,
  out_pc,                \* position of write_output_data (the consumer)
  samples,               \* block pulled by the consumer in this iteration
  pipe_obs,              \* observation of the pipeline's history (not program state)
  cfg_pc,                \* position of main during start-up
  bufsecs,               \* -b option in milliseconds; -1000 is the initial -1 s
  stereo,
  outputbuf_samples,
  startup,               \* what the command line and the environment hold at start-up
  exit_code,             \* the exit status of the process, NoExit while it runs
  fm,                    \* the fields of FmDecoder (m_pilotpll is pll)
  fm_obs,                \* observation of the decoder's calls (not program state)
  policy,                \* one use of the decoder's output selection: inputs and result
  phasor,                \* m_phasor_i1, _i2, _q1, _q2, followed for all-zero input only
  enc,                   \* one use of the encoders: the samples and the bytes
  sink,                  \* an AudioOutput on its own: the object and what it wrote
  ppsout                 \* the PPS writing loop of main: pending events, iterator, lines

\* Filtered in-phase levels a sample can produce: 2*0 > m_minsignal fails,
\* 2*1 > m_minsignal holds.
PhasorLevels == {0, 1}
\* Phase errors (fast_atan2f of the filtered phasor) a sample can produce:
\* the local tone leads or lags the pilot.
PhaseErrors == {-1, 1}
\* A sample: the filtered in-phase level and the phase error it produces; a
\* NaN in the input makes both NaN.
PllSample == [i : PhasorLevels, e : PhaseErrors] \cup {[i |-> NaN, e |-> NaN]}

RECURSIVE SeqsUpTo(_, _)
SeqsUpTo(S, n) ==
  IF n = 0 THEN {<<>>}
  ELSE LET shorter == SeqsUpTo(S, n - 1)
       IN shorter \cup {Append(q, x) : q \in {r \in shorter : Len(r) = n - 1}, x \in S}

PllBlocks == SeqsUpTo(PllSample, MaxN)

\* PilotPhaseLock::PilotPhaseLock
PllInit ==
  [ m_lock_cnt      |-> 0,
    m_pilot_level   |-> 0,
    m_freq          |-> freq,
    m_phase         |-> 0,
    m_loopfilter_x1 |-> 0,
    m_pilot_periods |-> 0,
    m_pps_cnt       |-> 0,
    m_sample_cnt    |-> 0,
    m_pps_events    |-> <<>> ]

\* History observed from outside the PLL:
\*   run    samples in the current run of consecutive non-empty blocks that
\*          met the pilot-level threshold (saturating),
\*   wraps  phase wraps since the last PPS event was generated (saturating),
\*   gaps   for every pending PPS event, the wraps counted when it was generated,
\*   n      size of the last block processed,
\*   was    the PLL was locked when the last block started (was_locked),
\*   gen    PPS events generated while the last block was processed,
\*   clamp  the frequency limit acted on some sample of the last block,
\*   inrng  the frequency was within the limits after every sample of it,
\*   nan    some sample so far drove the frequency estimate to NaN before the limit,
\*   out    size of samples_out after the last call,
\*   perok  0 <= m_pilot_periods < pilot_frequency held after every sample so far.
ObsInit ==
  [run |-> 0, wraps |-> 0, gaps |-> <<>>, n |-> 0, was |-> FALSE, gen |-> 0,
   clamp |-> FALSE, inrng |-> TRUE, nan |-> FALSE, out |-> 0, perok |-> TRUE]

\* PilotPhaseLock::locked
locked(p) == p.m_lock_cnt >= m_lock_delay

\* Limit frequency to allowable range (std::max(m_minfreq, std::min(m_maxfreq, m_freq))).
ClampFreqSwapped(f) == StdMax(StdMin(f, m_maxfreq), m_minfreq)
ClampFreq(f) == StdMax(m_minfreq, StdMin(m_maxfreq, f))

\* Generate pulse-per-second (m_pilot_periods == pilot_frequency).
PpsDueLate(periods) == periods = pilot_frequency + 1
PpsDue(periods) == periods = pilot_frequency

\* struct PpsEvent ev, filled in for sample number i of a block of n samples.
PpsEventBlockEnd(p, i, n) ==
  [pps_index |-> p.m_pps_cnt,
   sample_index |-> p.m_sample_cnt + n,
   block_position |-> <<i, n>>]
PpsEvent(p, i, n) ==
  [pps_index |-> p.m_pps_cnt,
   sample_index |-> p.m_sample_cnt + i,
   block_position |-> <<i, n>>]

\* One iteration of the sample loop of PilotPhaseLock::process, for sample
\* number i of a block of n samples; st = [p |-> PLL fields, o |-> observation].
SampleStep(st, s, i, n, was_locked) ==
  LET p == st.p
      o == st.o
      level == StdMin(p.m_pilot_level, s.i)
      f1 == Add(p.m_freq, Add(Mul(m_loopfilter_b0, s.e),
                              Mul(m_loopfilter_b1, p.m_loopfilter_x1)))
      f2 == ClampFreq(f1)
      ph1 == Add(p.m_phase, f2)
      wrap == Less(TwoPi, ph1)
      ph2 == IF wrap THEN Add(ph1, -TwoPi) ELSE ph1
      per1 == IF wrap THEN p.m_pilot_periods + 1 ELSE p.m_pilot_periods
      pps == wrap /\ PpsDue(per1)
      per2 == IF pps THEN 0 ELSE per1
      emit == pps /\ was_locked
      w1 == IF wrap THEN Min(o.wraps + 1, pilot_frequency + 1) ELSE o.wraps
      ev == PpsEvent(p, i, n)
  IN [p |-> [p EXCEPT !.m_pilot_level = level,
                      !.m_freq = f2,
                      !.m_loopfilter_x1 = s.e,
                      !.m_phase = ph2,
                      !.m_pilot_periods = per2,
                      !.m_pps_events = IF emit THEN Append(@, ev) ELSE @,
                      !.m_pps_cnt = IF emit THEN @ + 1 ELSE @],
      o |-> [o EXCEPT !.wraps = IF emit THEN 0 ELSE w1,
                      !.gaps = IF emit THEN Append(@, w1) ELSE @,
                      !.gen = IF emit THEN @ + 1 ELSE @,
                      !.clamp = @ \/ f2 # f1,
                      !.nan = @ \/ IsNaN(f1),
                      !.inrng = @ /\ Leq(m_minfreq, f2) /\ Leq(f2, m_maxfreq),
                      !.perok = @ /\ 0 <= per2 /\ per2 < pilot_frequency]]

RECURSIVE SampleLoop(_, _, _, _)
SampleLoop(st, samples_in, i, was_locked) ==
  IF i >= Len(samples_in) THEN st
  ELSE SampleLoop(SampleStep(st, samples_in[i + 1], i, Len(samples_in), was_locked),
                  samples_in, i + 1, was_locked)

\* 2 * m_pilot_level > m_minsignal
LevelOkStart(p) == Less(m_minsignal, Mul(2, PilotLevelStart))
LevelOk(p) == Less(m_minsignal, Mul(2, p.m_pilot_level))

\* Update lock status.
UpdateLockNoReset(p, n) ==
  IF p.m_lock_cnt < m_lock_delay THEN p.m_lock_cnt + n ELSE p.m_lock_cnt
UpdateLockDecay(p, n) ==
  IF LevelOk(p)
  THEN (IF p.m_lock_cnt < m_lock_delay THEN p.m_lock_cnt + n ELSE p.m_lock_cnt)
  ELSE Max(p.m_lock_cnt - n, 0)
UpdateLock(p, n) ==
  IF LevelOk(p)
  THEN (IF p.m_lock_cnt < m_lock_delay THEN p.m_lock_cnt + n ELSE p.m_lock_cnt)
  ELSE 0

\* Drop PPS events when pilot not locked.
DropPpsKeep(p) == p
DropPps(p) ==
  IF p.m_lock_cnt < m_lock_delay
  THEN [p EXCEPT !.m_pilot_periods = 0, !.m_pps_cnt = 0, !.m_pps_events = <<>>]
  ELSE p

\* PilotPhaseLock::process: the fields after the call.
PllProcess(p0, o0, samples_in) ==
  LET n == Len(samples_in)
      was_locked == locked(p0)
      cleared == [p0 EXCEPT !.m_pps_events = <<>>]
  IN IF n = 0
     THEN [p |-> cleared, o |-> [o0 EXCEPT !.gaps = <<>>, !.n = 0, !.was = was_locked,
                                             !.gen = 0, !.clamp = FALSE, !.inrng = TRUE,
                                             !.out = 0]]
     ELSE LET st == SampleLoop([p |-> [cleared EXCEPT !.m_pilot_level = PilotLevelStart],
                                o |-> [o0 EXCEPT !.gaps = <<>>, !.was = was_locked, !.gen = 0,
                                                 !.clamp = FALSE, !.inrng = TRUE]],
                               samples_in, 0, was_locked)
              pl == [st.p EXCEPT !.m_lock_cnt = UpdateLock(st.p, n)]
              pd == DropPps(pl)
              ok == LevelOk(st.p)
          IN [p |-> [pd EXCEPT !.m_sample_cnt = @ + n],
              o |-> [st.o EXCEPT !.run = IF ok THEN Min(@ + n, m_lock_delay + MaxN + 1) ELSE 0,
                                 !.gaps = IF pd.m_pps_events = <<>> THEN <<>> ELSE @,
                                 !.n = n,
                                 !.out = n]]

\* One call of PilotPhaseLock::process on a block of at most MaxN samples.
ProcessNoEarlyReturn ==
  \E samples_in \in PllBlocks :
    /\ pll.m_sample_cnt + Len(samples_in) <= MaxSamples
    /\ \E r \in {PllProcess(pll, pll_obs, samples_in)} :
          /\ pll' = [r.p EXCEPT !.m_pilot_level =
                                  IF Len(samples_in) = 0 THEN PilotLevelStart ELSE @]
          /\ pll_obs' = r.o
Process ==
  \E samples_in \in PllBlocks :
    /\ pll.m_sample_cnt + Len(samples_in) <= MaxSamples
    /\ \E r \in {PllProcess(pll, pll_obs, samples_in)} :
          /\ pll' = r.p
          /\ pll_obs' = r.o

pllVars == <<pll, pll_obs>>
pipeVars ==
  <<stop_flag, source_buffer, output_buffer, audio_output, src, main_pc, block,
    iqsamples, audiosamples, inbuf_length_warning, out_pc, samples, pipe_obs>>
cfgVars == <<cfg_pc, bufsecs, stereo, outputbuf_samples, startup>>
fmVars == <<fm, fm_obs>>
dspVars == <<policy, phasor, enc, sink, ppsout>>
vars == <<pllVars, pipeVars, cfgVars, buf_minfill, exit_code, fmVars, dspVars>>

(***************************************************************************)
(* The pipeline: source thread -> IQ queue -> main loop -> audio queue ->  *)
(* write_output_data -> audio output.                                      *)
(***************************************************************************)
\* IQ blocks the source delivers in one run
MaxIqBlocks == 3
\* the IQ block length of the source
MaxIq == 1
\* largest audio block one decoder call returns
MaxAudio == 2
\* largest minimum-fill threshold handed to the consumer
MaxMinfill == 2
\* discarding_blocks = stat_rate * 4, scaled down
discarding_blocks == 0
\* 10 * ifrate, scaled down
InbufWarnLimit == 1

\* A block of samples: the number of the loop iteration (or source delivery)
\* it came from and its size; all empty blocks are the same.
Blk(b, n) == IF n = 0 THEN [blk |-> 0, n |-> 0] ELSE [blk |-> b, n |-> n]
NoBlock == Blk(0, 0)

RECURSIVE SumSizes(_)
SumSizes(q) == IF q = <<>> THEN 0 ELSE Head(q).n + SumSizes(Tail(q))

IsPrefix(a, b) == Len(a) <= Len(b) /\ SubSeq(b, 1, Len(a)) = a

\* DataBuffer: FIFO of blocks, queued_samples and the end-of-stream flag.
BufInit == [queue |-> <<>>, qlen |-> 0, end_marked |-> FALSE]
\* DataBuffer::push
BufPushNoCount(b, blk) == [b EXCEPT !.queue = Append(@, blk)]
BufPush(b, blk) == [b EXCEPT !.queue = Append(@, blk), !.qlen = @ + blk.n]
\* DataBuffer::push_end
BufPushEnd(b) == [b EXCEPT !.end_marked = TRUE]
\* DataBuffer::queued_samples
queued_samples(b) == b.qlen
\* DataBuffer::pull blocks while the queue is empty and the end is not marked
BufCanPull(b) == b.queue # <<>> \/ b.end_marked
\* DataBuffer::pull: the block returned (empty at the end) and the buffer left
BufPull(b) ==
  IF b.queue # <<>>
  THEN [ret |-> Head(b.queue),
        buf |-> [b EXCEPT !.queue = Tail(@), !.qlen = @ - Head(b.queue).n]]
  ELSE [ret |-> NoBlock, buf |-> b]
\* DataBuffer::pull_end_reached
pull_end_reached(b) == b.qlen = 0 /\ b.end_marked
\* DataBuffer::wait_buffer_fill returns once this holds
BufFilled(b, minfill) == b.qlen >= minfill \/ b.end_marked

\* AudioOutput: the kind of sink, whether m_error is non-empty, m_zombie.
OutputModes == {"RAW", "WAV", "PORTAUDIO"}
\* RawAudioOutput and WavAudioOutput fail a write in the same way
PipeOutputModes == {"WAV", "PORTAUDIO"}
NewOutput(mode) == [mode |-> mode, m_error |-> FALSE, m_zombie |-> FALSE]
\* AudioOutput::operator bool
OutputReady(o) == (~o.m_zombie) /\ ~o.m_error
\* What one call of write can meet in the sink.
WriteOutcomes(o) ==
  IF o.mode = "PORTAUDIO" THEN {"ok", "underflow", "error"} ELSE {"ok", "error"}
\* RawAudioOutput::write, WavAudioOutput::write, PortAudioOutput::write:
\* the value returned and the output afterwards.
OutputWriteUnderflowFatal(o, outcome) ==
  IF o.mode = "PORTAUDIO"
  THEN IF o.m_zombie THEN [ret |-> FALSE, out |-> o]
       ELSE IF outcome = "ok" THEN [ret |-> TRUE, out |-> o]
       ELSE [ret |-> FALSE, out |-> [o EXCEPT !.m_error = TRUE, !.m_zombie = TRUE]]
  ELSE IF o.m_zombie THEN [ret |-> FALSE, out |-> o]
       ELSE IF outcome = "ok" THEN [ret |-> TRUE, out |-> o]
       ELSE [ret |-> FALSE, out |-> [o EXCEPT !.m_error = TRUE]]
OutputWrite(o, outcome) ==
  IF o.mode = "PORTAUDIO"
  THEN IF o.m_zombie THEN [ret |-> FALSE, out |-> o]
       ELSE IF outcome \in {"ok", "underflow"} THEN [ret |-> TRUE, out |-> o]
       ELSE [ret |-> FALSE, out |-> [o EXCEPT !.m_error = TRUE, !.m_zombie = TRUE]]
  ELSE IF o.m_zombie THEN [ret |-> FALSE, out |-> o]
       ELSE IF outcome = "ok" THEN [ret |-> TRUE, out |-> o]
       ELSE [ret |-> FALSE, out |-> [o EXCEPT !.m_error = TRUE]]
\* AudioOutput::error returns the text and clears it
OutputErrorKeep(o) == o
OutputErrorRead(o) == [o EXCEPT !.m_error = FALSE]

\* Observation of the pipeline:
\*   pushed      audio blocks main pushed to output_buffer, in order,
\*   written     audio blocks for which write returned true, in order,
\*   waited      the consumer went through wait_buffer_fill in this iteration,
\*   empty_pull  the consumer's pull returned an empty block,
\*   warnings    times the 'Input buffer is growing' warning was printed,
\*   last_write  the write of this iteration of the consumer: what the sink
\*               met, the value write returned, the output's state after it.
NoWrite == [outcome |-> "none", ret |-> TRUE, ready |-> TRUE]
PipeObsInit ==
  [pushed |-> <<>>, written |-> <<>>, waited |-> FALSE, empty_pull |-> FALSE, warnings |-> 0,
   last_write |-> NoWrite]

\* State when the main loop is entered, output thread and source started.
PipeStart ==
  /\ stop_flag = FALSE
  /\ source_buffer = BufInit
  /\ output_buffer = BufInit
  /\ src = [pc |-> "run", pushed |-> 0]
  /\ main_pc = "loop"
  /\ block = 0
  /\ iqsamples = 0
  /\ audiosamples = NoBlock
  /\ inbuf_length_warning = FALSE
  /\ out_pc = "test"
  /\ samples = NoBlock
  /\ pipe_obs = PipeObsInit

\* ---- the source thread (Source::start .. Source::stop) ----
\* The device delivers one more IQ block, of its block length.
SrcPush ==
  /\ src.pc = "run"
  /\ src.pushed < MaxIqBlocks
  /\ \E n \in {MaxIq} :
       source_buffer' = BufPush(source_buffer, Blk(src.pushed, n))
  /\ src' = [src EXCEPT !.pushed = @ + 1]
  /\ UNCHANGED <<stop_flag, output_buffer, audio_output, main_pc, block, iqsamples,
                 audiosamples, inbuf_length_warning, out_pc, samples, pipe_obs>>
\* The source is exhausted or has seen the termination flag: end-of-stream.
SrcEnd ==
  /\ src.pc = "run"
  /\ source_buffer' = BufPushEnd(source_buffer)
  /\ src' = [src EXCEPT !.pc = "done"]
  /\ UNCHANGED <<stop_flag, output_buffer, audio_output, main_pc, block, iqsamples,
                 audiosamples, inbuf_length_warning, out_pc, samples, pipe_obs>>
\* Fatal device error: sets the termination flag and pushes end-of-stream.
SrcError ==
  /\ src.pc = "run"
  /\ stop_flag' = TRUE
  /\ source_buffer' = BufPushEnd(source_buffer)
  /\ src' = [src EXCEPT !.pc = "done"]
  /\ UNCHANGED <<output_buffer, audio_output, main_pc, block, iqsamples,
                 audiosamples, inbuf_length_warning, out_pc, samples, pipe_obs>>

\* ---- handle_sigterm ----
SigTerm ==
  /\ main_pc # "done"
  /\ ~stop_flag
  /\ stop_flag' = TRUE
  /\ UNCHANGED <<source_buffer, output_buffer, audio_output, src, main_pc, block,
                 iqsamples, audiosamples, inbuf_length_warning, out_pc, samples, pipe_obs>>

\* ---- main: the main loop and the shutdown after it ----
\* for (block = 0; !stop_flag.load(); block++)
MainLoopTest ==
  /\ main_pc = "loop"
  /\ main_pc' = IF stop_flag THEN "stop_src" ELSE "warn"
  /\ UNCHANGED <<stop_flag, source_buffer, output_buffer, audio_output, src, block,
                 iqsamples, audiosamples, inbuf_length_warning, out_pc, samples, pipe_obs>>
\* if (!inbuf_length_warning && source_buffer.queued_samples() > 10 * ifrate)
WarnDueAlways(warned, queued) == queued > InbufWarnLimit
WarnDue(warned, queued) == (~warned) /\ queued > InbufWarnLimit
\* Check for overflow of source buffer.
MainWarn ==
  /\ main_pc = "warn"
  /\ IF WarnDue(inbuf_length_warning, queued_samples(source_buffer))
     THEN /\ pipe_obs' = [pipe_obs EXCEPT !.warnings = @ + 1]
          /\ inbuf_length_warning' = TRUE
     ELSE UNCHANGED <<pipe_obs, inbuf_length_warning>>
  /\ main_pc' = "pull"
  /\ UNCHANGED <<stop_flag, source_buffer, output_buffer, audio_output, src, block,
                 iqsamples, audiosamples, out_pc, samples>>
\* Pull next block from source buffer; an empty block ends the loop.
MainPull ==
  /\ main_pc = "pull"
  /\ BufCanPull(source_buffer)
  /\ LET r == BufPull(source_buffer)
     IN /\ source_buffer' = r.buf
        /\ iqsamples' = r.ret.n
        /\ main_pc' = IF r.ret.n = 0 THEN "stop_src" ELSE "decode"
  /\ UNCHANGED <<stop_flag, output_buffer, audio_output, src, block,
                 audiosamples, inbuf_length_warning, out_pc, samples, pipe_obs>>
\* The rest of the loop body: IF conditioning, decoding, and the push of the
\* audio block.  if_exists: the IF resampler returned samples; a: size of the
\* audio block the decoder returned (none, the smallest, the largest).
MainDecode ==
  /\ main_pc = "decode"
  /\ \E if_exists \in BOOLEAN, a \in {0, 1, MaxAudio} :
       LET decoded == IF if_exists THEN Blk(block, a) ELSE audiosamples
           audio_exists == decoded.n > 0
           do_push == (block > discarding_blocks) /\ audio_exists
       IN /\ output_buffer' = IF do_push THEN BufPush(output_buffer, decoded)
                              ELSE output_buffer
          /\ audiosamples' = IF do_push THEN NoBlock ELSE decoded
          /\ pipe_obs' = IF do_push THEN [pipe_obs EXCEPT !.pushed = Append(@, decoded)]
                         ELSE pipe_obs
  /\ block' = block + 1
  /\ iqsamples' = 0
  /\ main_pc' = "loop"
  /\ UNCHANGED <<stop_flag, source_buffer, audio_output, src,
                 inbuf_length_warning, out_pc, samples>>
\* up_srcsdr->stop(): returns when the source thread has ended.
MainStopSrcMarksEnd ==
  /\ main_pc = "stop_src"
  /\ src.pc = "done"
  /\ output_buffer' = BufPushEnd(output_buffer)
  /\ main_pc' = "push_end"
  /\ UNCHANGED <<stop_flag, source_buffer, audio_output, src, block,
                 iqsamples, audiosamples, inbuf_length_warning, out_pc, samples, pipe_obs>>
MainStopSrc ==
  /\ main_pc = "stop_src"
  /\ src.pc = "done"
  /\ main_pc' = "push_end"
  /\ UNCHANGED <<stop_flag, source_buffer, output_buffer, audio_output, src, block,
                 iqsamples, audiosamples, inbuf_length_warning, out_pc, samples, pipe_obs>>
\* output_buffer.push_end()
MainPushEndSkip ==
  /\ main_pc = "push_end"
  /\ main_pc' = "join"
  /\ UNCHANGED <<stop_flag, source_buffer, output_buffer, audio_output, src, block,
                 iqsamples, audiosamples, inbuf_length_warning, out_pc, samples, pipe_obs>>
MainPushEnd ==
  /\ main_pc = "push_end"
  /\ output_buffer' = BufPushEnd(output_buffer)
  /\ main_pc' = "join"
  /\ UNCHANGED <<stop_flag, source_buffer, audio_output, src, block,
                 iqsamples, audiosamples, inbuf_length_warning, out_pc, samples, pipe_obs>>
\* output_thread.join(); return 0
MainJoin ==
  /\ main_pc = "join"
  /\ out_pc = "done"
  /\ main_pc' = "done"
  /\ exit_code' = 0
  /\ UNCHANGED <<stop_flag, source_buffer, output_buffer, audio_output, src, block,
                 iqsamples, audiosamples, inbuf_length_warning, out_pc, samples, pipe_obs>>

\* ---- write_output_data: the consumer thread ----
\* while (!stop_flag.load())
OutTest ==
  /\ out_pc = "test"
  /\ out_pc' = IF stop_flag THEN "done" ELSE "fill"
  /\ pipe_obs' = [pipe_obs EXCEPT !.last_write = NoWrite]
  /\ UNCHANGED <<stop_flag, source_buffer, output_buffer, audio_output, src, main_pc,
                 block, iqsamples, audiosamples, inbuf_length_warning, samples>>
\* if (buf->queued_samples() == 0) ...
OutFillBreak ==
  /\ out_pc = "fill"
  /\ out_pc' = IF queued_samples(output_buffer) = 0 THEN "done" ELSE "end_check"
  /\ pipe_obs' = [pipe_obs EXCEPT !.waited = FALSE]
  /\ UNCHANGED <<stop_flag, source_buffer, output_buffer, audio_output, src, main_pc,
                 block, iqsamples, audiosamples, inbuf_length_warning, samples>>
OutFill ==
  /\ out_pc = "fill"
  /\ out_pc' = IF queued_samples(output_buffer) = 0 THEN "wait" ELSE "end_check"
  /\ pipe_obs' = [pipe_obs EXCEPT !.waited = FALSE]
  /\ UNCHANGED <<stop_flag, source_buffer, output_buffer, audio_output, src, main_pc,
                 block, iqsamples, audiosamples, inbuf_length_warning, samples>>
\* ... buf->wait_buffer_fill(buf_minfill)
OutWait ==
  /\ out_pc = "wait"
  /\ BufFilled(output_buffer, buf_minfill)
  /\ out_pc' = "end_check"
  /\ pipe_obs' = [pipe_obs EXCEPT !.waited = TRUE]
  /\ UNCHANGED <<stop_flag, source_buffer, output_buffer, audio_output, src, main_pc,
                 block, iqsamples, audiosamples, inbuf_length_warning, samples>>
\* if (buf->pull_end_reached()) break;
OutEndCheckNever ==
  /\ out_pc = "end_check"
  /\ out_pc' = "pull"
  /\ UNCHANGED <<stop_flag, source_buffer, output_buffer, audio_output, src, main_pc,
                 block, iqsamples, audiosamples, inbuf_length_warning, samples, pipe_obs>>
OutEndCheck ==
  /\ out_pc = "end_check"
  /\ out_pc' = IF pull_end_reached(output_buffer) THEN "done" ELSE "pull"
  /\ UNCHANGED <<stop_flag, source_buffer, output_buffer, audio_output, src, main_pc,
                 block, iqsamples, audiosamples, inbuf_length_warning, samples, pipe_obs>>
\* SampleVector samples = buf->pull();
OutPull ==
  /\ out_pc = "pull"
  /\ BufCanPull(output_buffer)
  /\ LET r == BufPull(output_buffer)
     IN /\ output_buffer' = r.buf
        /\ samples' = r.ret
        /\ pipe_obs' = [pipe_obs EXCEPT !.empty_pull = @ \/ r.ret.n = 0]
  /\ out_pc' = "write"
  /\ UNCHANGED <<stop_flag, source_buffer, audio_output, src, main_pc,
                 block, iqsamples, audiosamples, inbuf_length_warning>>
\* output->write(samples); if (!(*output)) { ... error() ...; stop_flag.store(true); }
\* if (!(*output)) { ... stop_flag.store(true); }
StopOnLastWrite(flag, ready) == ~ready
StopOnSinkError(flag, ready) == IF ready THEN flag ELSE TRUE
OutWrite ==
  /\ out_pc = "write"
  /\ \E outcome \in WriteOutcomes(audio_output) :
       LET w == OutputWrite(audio_output, outcome)
       IN /\ audio_output' = IF OutputReady(w.out) THEN w.out ELSE OutputErrorRead(w.out)
          /\ stop_flag' = StopOnSinkError(stop_flag, OutputReady(w.out))
          /\ pipe_obs' = [pipe_obs EXCEPT
                          !.written = IF w.ret THEN Append(@, samples) ELSE @,
                          !.last_write = [outcome |-> outcome, ret |-> w.ret,
                                          ready |-> OutputReady(w.out)]]
  /\ samples' = NoBlock
  /\ out_pc' = "test"
  /\ UNCHANGED <<source_buffer, output_buffer, src, main_pc,
                 block, iqsamples, audiosamples, inbuf_length_warning>>

SrcStep == (SrcPush \/ SrcEnd \/ SrcError) /\ UNCHANGED exit_code
MainStep ==
  \/ (\/ MainLoopTest \/ MainWarn \/ MainPull \/ MainDecode
      \/ MainStopSrc \/ MainPushEnd) /\ UNCHANGED exit_code
  \/ MainJoin
OutStep ==
  (OutTest \/ OutFill \/ OutWait \/ OutEndCheck \/ OutPull \/ OutWrite)
    /\ UNCHANGED exit_code

(***************************************************************************)
(* Start-up: the -b and -M options and the output buffer length.           *)
(* bufsecs is kept in units of 1/100000 s.                                 *)
(***************************************************************************)
\* largest -b argument tried, in steps of 49/100000 s
MaxBufArg == 24
\* FmDecoder::sample_rate_pcm
pcmrate == 48000
\* minimum limit for the output buffer length
MinOutputbuf == 480

BufArgs == {49 * k : k \in -1..MaxBufArg}
\* (unsigned int)(bufsecs * pcmrate)
SecsToSamples(b) == (b * pcmrate) \div 100000

\* exit_code while the process runs
NoExit == -1
\* devidx after an unparsable -d argument: parse_int fails and main stores -1
DArgUnparsed == 1000
\* A command line and an environment in which no start-up check fails.
NoStartup == [faults |-> {}, d_arg |-> 0]

CfgStart ==
  /\ cfg_pc = "getopt"
  /\ bufsecs = -100000
  /\ stereo = TRUE
  /\ outputbuf_samples = 0
  /\ startup = NoStartup
  /\ exit_code = NoExit

\* case 'b': parse_dbl(optarg, bufsecs), badarg("-b") when bufsecs < 0
OptB ==
  /\ cfg_pc = "getopt"
  /\ \E v \in BufArgs :
       /\ bufsecs' = v
       /\ cfg_pc' = IF v < 0 THEN "exit1" ELSE "getopt"
       /\ exit_code' = IF v < 0 THEN 1 ELSE exit_code
  /\ UNCHANGED <<stereo, outputbuf_samples, buf_minfill, startup>>
\* case 'M'
OptM ==
  /\ cfg_pc = "getopt"
  /\ stereo = TRUE
  /\ stereo' = FALSE
  /\ UNCHANGED <<cfg_pc, bufsecs, outputbuf_samples, buf_minfill, startup, exit_code>>
\* Calculate number of samples in audio buffer.
OutputbufSamples(b) ==
  LET configured == IF b > 0 THEN SecsToSamples(b) ELSE pcmrate
  IN IF configured < MinOutputbuf THEN MinOutputbuf ELSE configured
\* ... and the start of the output thread with outputbuf_samples * nchannel.
StartOutput ==
  /\ cfg_pc = "getopt"
  /\ outputbuf_samples' = OutputbufSamples(bufsecs)
  /\ buf_minfill' = OutputbufSamples(bufsecs) * (IF stereo THEN 2 ELSE 1)
  /\ cfg_pc' = "ready"
  /\ UNCHANGED <<bufsecs, stereo, startup, exit_code>>

(***************************************************************************)
(* Start-up: the checks of main before the main loop, in the order of the  *)
(* code, and the exit status. startup holds what the command line and the  *)
(* environment hold: the checks that will fail and the argument of -d.     *)
(***************************************************************************)
\* largest number of failing checks one start-up holds
MaxFaults == 2
\* devnames.size(): devices found by get_device_names
NumDevices == 1

\* badarg("-l"), ("-P"), ("-b"), ("-E"), ("-r"); the default case of the
\* switch; optind < argc
GetoptFaults == {"badarg", "invalid_option", "unexpected_argument"}
\* wrong device type; modulation type unsupported; filter type unsupported
TypeFaults == {"devtype", "modtype", "filtertype"}
StartupFaults ==
  GetoptFaults \cup TypeFaults \cup
    {"ppsfile", "audio_output", "device_open", "configure", "start"}
\* Arguments of -d: unparsable, or an integer.
DArgs == {DArgUnparsed} \cup (-1..NumDevices)
StartupInputs ==
  {[faults |-> f, d_arg |-> d] :
     f \in {g \in SUBSET StartupFaults : Cardinality(g) <= MaxFaults}, d \in DArgs}

\* case 'd': if (!parse_int(optarg, devidx)) devidx = -1;
ParseDevidx(d_arg) == IF d_arg = DArgUnparsed THEN -1 ELSE d_arg
\* get_device: false when devidx < 0 or devidx >= devnames.size()
GetDeviceNoLowerBound(devidx) == devidx < NumDevices
GetDevice(devidx) == ~(devidx < 0 \/ devidx >= NumDevices)

\* exit(1)
ExitFailure == cfg_pc' = "exit1" /\ exit_code' = 1
\* One check of main: exit(1) when it fails, the next check otherwise.
StartupCheck(at, failed, next) ==
  /\ cfg_pc = at
  /\ IF failed THEN ExitFailure
               ELSE cfg_pc' = next /\ UNCHANGED exit_code
  /\ UNCHANGED <<bufsecs, stereo, outputbuf_samples, startup, buf_minfill>>

\* the getopt_long loop and the test optind < argc
StartGetopt ==
  StartupCheck("getopt", startup.faults \cap GetoptFaults # {}, "types")
\* device type, modulation type and filter type strings
StartTypes ==
  StartupCheck("types", startup.faults \cap TypeFaults # {}, "pps")
\* Open PPS file (after the signal handlers are installed).
StartPps == StartupCheck("pps", "ppsfile" \in startup.faults, "audio")
\* Prepare output writer: if (!(*audio_output)) exit(1)
StartAudio == StartupCheck("audio", "audio_output" \in startup.faults, "device")
\* if (!get_device(devnames, devtype, &srcsdr, devidx)) exit(1)
StartDevice ==
  StartupCheck("device", ~GetDevice(ParseDevidx(startup.d_arg)), "open")
\* if (!(*srcsdr)) exit(1)
StartOpen == StartupCheck("open", "device_open" \in startup.faults, "configure")
\* if (!srcsdr->configure(config_str)) exit(1)
StartConfigure ==
  StartupCheck("configure", "configure" \in startup.faults, "start")
\* up_srcsdr->start(...); if (!(*up_srcsdr)) exit(1); then the output thread
\* is started and the main loop is entered.
StartSource == StartupCheck("start", "start" \in startup.faults, "run")
StartupStep ==
  \/ StartGetopt \/ StartTypes \/ StartPps \/ StartAudio
  \/ StartDevice \/ StartOpen \/ StartConfigure \/ StartSource
\* Positions of main at which handle_sigterm is installed and the process
\* has not left the start-up through exit(1).
HandlerInstalled ==
  cfg_pc \in {"pps", "audio", "device", "open", "configure", "start", "run"}
\* The process holds a start-up or configuration error.
StartupError ==
  startup.faults # {} \/ startup.d_arg \notin 0..(NumDevices - 1)



(***************************************************************************)
(* FmDecoder: the multipath equalizer's start-up and reset, the pilot PLL, *)
(* the mono and stereo audio resamplers and the output policy.             *)
(***************************************************************************)
\* m_wait_multipath_blocks(100), scaled down
WaitBlocks == 2
\* calls of FmDecoder::process in one run
MaxFmCalls == 4

\* MultipathFilter coefficient vectors, three taps: the initial vector, an
\* adapted one, one with a non-finite entry.
MfInitial == <<0, 1, 0>>
MfVectors == {MfInitial, <<1, 1, 0>>, <<NaN, 1, 0>>}
\* Reference levels: vanished (below 0.01), sound, not a number.
MfReferenceLevels == {0, 1, NaN}
MfFinite(c) == \A k \in 1..Len(c) : ~IsNaN(c[k])
\* MultipathFilter::initialize_coefficients
initialize_coefficients(c) == MfInitial
\* MultipathFilter::process on a non-empty block: the coefficients after the
\* last LMS update of the block, whether the error of that update (get_error)
\* is finite, and the reference level (get_reference_level).  The update is an
\* LMS step normalized by the reference power: the coefficients leave the
\* finite range through a non-finite error or a vanished reference, and
\* non-finite coefficients give a non-finite error from then on.
MfNoOutcome == [coeff |-> MfInitial, error_finite |-> TRUE, reference_level |-> 1]
MfOutcomes(c) ==
  IF MfFinite(c)
  THEN [coeff : {e \in MfVectors : MfFinite(e)}, error_finite : {TRUE},
        reference_level : {0, 1}]
       \cup [coeff : {e \in MfVectors : ~MfFinite(e)}, error_finite : {FALSE},
             reference_level : MfReferenceLevels]
       \cup [coeff : {e \in MfVectors : ~MfFinite(e)}, error_finite : {TRUE},
             reference_level : {0}]
  ELSE [coeff : {c}, error_finite : {FALSE}, reference_level : MfReferenceLevels]

\* AudioResampler: decimation by two; the state is the input sample left
\* over, the result the number of output samples and the state afterwards.
Resample(acc, n) == [out |-> (acc + n) \div 2, acc |-> (acc + n) % 2]

\* mono_to_left_right, stereo_to_left_right, zero_to_left_right
Interleave(l, r) ==
  [k \in 1..(2 * Len(l)) |-> IF k % 2 = 1 THEN l[(k + 1) \div 2] ELSE r[k \div 2]]
\* L-R signal is boosted by 1.017
Boost(s) == (s * 1017) \div 1000
mono_to_left_right(m) == Interleave(m, m)
stereo_to_left_right(m, s) ==
  Interleave([k \in 1..Len(m) |-> m[k] + Boost(s[k])],
             [k \in 1..Len(m) |-> m[k] - Boost(s[k])])
zero_to_left_right(m) == Interleave([k \in 1..Len(m) |-> 0], [k \in 1..Len(m) |-> 0])
\* The end of FmDecoder::process: the audio block from m_buf_mono, m_buf_stereo.
OutputPolicyMonoOnShift(enabled, detected, shift, m, s) ==
  IF ~enabled THEN m
  ELSE IF detected
       THEN (IF shift THEN mono_to_left_right(m) ELSE stereo_to_left_right(m, s))
       ELSE (IF shift THEN zero_to_left_right(s) ELSE mono_to_left_right(m))
OutputPolicy(enabled, detected, shift, m, s) ==
  IF ~enabled THEN m
  ELSE IF detected
       THEN (IF shift THEN mono_to_left_right(s) ELSE stereo_to_left_right(m, s))
       ELSE (IF shift THEN zero_to_left_right(s) ELSE mono_to_left_right(m))

\* FmDecoder::FmDecoder
FmInit(stereo_enabled, pilot_shift, multipath) ==
  [ m_stereo_enabled          |-> stereo_enabled,
    m_pilot_shift             |-> pilot_shift,
    m_enable_multipath_filter |-> multipath,
    m_skip_multipath_filter   |-> FALSE,
    m_wait_multipath_blocks   |-> WaitBlocks,
    m_stereo_detected         |-> FALSE,
    m_coeff                   |-> MfInitial,
    mono_acc                  |-> 0,
    stereo_acc                |-> 0 ]

\* What the last call of FmDecoder::process did, and the history:
\*   calls       calls so far,
\*   blocks      non-empty blocks processed so far,
\*   n           size of the last block,
\*   applied     the equalizer was run on the last block,
\*   mf          ... and what it left: coefficients, error, reference level,
\*   passed      what went to the phase discriminator: "agc" or "equalizer",
\*   start_coeff the coefficients when the last call started,
\*   mono_in, stereo_in    samples fed to each audio resampler in the last call
\*                         (-1: not advanced),
\*   mono_out, stereo_out  samples each resampler returned in the last call,
\*   audio       the audio block returned,
\*   assert_failed  the size assertion of stereo_to_left_right failed,
\*   pilot       some block so far carried a pilot.
FmObsInit ==
  [calls |-> 0, blocks |-> 0, n |-> 0, applied |-> FALSE, mf |-> MfNoOutcome,
   passed |-> "none", start_coeff |-> MfInitial,
   mono_in |-> -1, stereo_in |-> -1, mono_out |-> 0, stereo_out |-> 0,
   audio |-> <<>>, assert_failed |-> FALSE, pilot |-> FALSE]

\* if (m_wait_multipath_blocks > 0)
InGraceNever(f) == FALSE
InGrace(f) == f.m_wait_multipath_blocks > 0
\* abnormal_error || reference_level_error
MfAnomalyErrorOnly(error_finite, reference_level) == ~error_finite
MfAnomaly(error_finite, reference_level) ==
  (~error_finite) \/ Less(IF Less(reference_level, 0) THEN -reference_level
                          ELSE reference_level, 1)
\* The equalizer is run on this block.
MfRuns(f) ==
  (~InGrace(f)) /\ f.m_enable_multipath_filter /\ ~f.m_skip_multipath_filter
\* The IF stage of FmDecoder::process: grace period, equalizer, reset.
\* mf: the outcome of MultipathFilter::process when it is run.
MultipathStageNoInit(f, mf) ==
  IF InGrace(f)
  THEN [f |-> [f EXCEPT !.m_wait_multipath_blocks = @ - 1],
        applied |-> FALSE, passed |-> "agc"]
  ELSE IF f.m_enable_multipath_filter /\ ~f.m_skip_multipath_filter
       THEN [f |-> [f EXCEPT !.m_coeff = mf.coeff], applied |-> TRUE,
             passed |-> IF MfAnomaly(mf.error_finite, mf.reference_level)
                        THEN "agc" ELSE "equalizer"]
       ELSE [f |-> f, applied |-> FALSE, passed |-> "agc"]
MultipathStage(f, mf) ==
  IF InGrace(f)
  THEN [f |-> [f EXCEPT !.m_wait_multipath_blocks = @ - 1],
        applied |-> FALSE, passed |-> "agc"]
  ELSE IF f.m_enable_multipath_filter /\ ~f.m_skip_multipath_filter
       THEN IF (~f.m_skip_multipath_filter) /\ MfAnomaly(mf.error_finite, mf.reference_level)
            THEN [f |-> [f EXCEPT !.m_coeff = initialize_coefficients(mf.coeff)],
                  applied |-> TRUE, passed |-> "agc"]
            ELSE [f |-> [f EXCEPT !.m_coeff = mf.coeff],
                  applied |-> TRUE, passed |-> "equalizer"]
       ELSE [f |-> f, applied |-> FALSE, passed |-> "agc"]

\* m_stereo_detected after m_pilotpll.process: force-set to true
StereoDetectedAfterPll(p) == TRUE
\* The stereo resampler is run whenever stereo is enabled.
StereoResampleDueWhenLocked(f, p) == f.m_stereo_enabled /\ locked(p)
StereoResampleDue(f, p) == f.m_stereo_enabled

\* FmDecoder::process from the stereo PLL on: st is the result of the IF
\* stage, r the PLL and its observation after m_pilotpll.process (unchanged
\* when stereo is disabled), oc the observation of the call so far.
FmAudioStage(st, r, oc, n, s, mf) ==
  LET f1 == st.f
      f2 == IF f1.m_stereo_enabled
            THEN [f1 EXCEPT !.m_stereo_detected = StereoDetectedAfterPll(r.p)]
            ELSE f1
      sdue == StereoResampleDue(f2, r.p)
      rs == IF sdue THEN Resample(f2.stereo_acc, n) ELSE [out |-> 0, acc |-> f2.stereo_acc]
      rm == Resample(f2.mono_acc, n)
      f3 == [f2 EXCEPT !.stereo_acc = rs.acc, !.mono_acc = rm.acc]
      m == [k \in 1..rm.out |-> 1000]
      sv == [k \in 1..rs.out |-> 2000]
      matrix == f3.m_stereo_enabled /\ f3.m_stereo_detected /\ ~f3.m_pilot_shift
      bad == rm.out > 0 /\ matrix /\ Len(m) # Len(sv)
      o1 == [oc EXCEPT !.blocks = @ + 1, !.applied = st.applied,
                       !.mf = IF st.applied THEN mf ELSE MfNoOutcome,
                       !.passed = st.passed,
                       !.mono_in = n, !.stereo_in = IF sdue THEN n ELSE -1,
                       !.mono_out = rm.out, !.stereo_out = rs.out,
                       !.assert_failed = @ \/ bad,
                       !.pilot = @ \/ (f1.m_stereo_enabled /\ s.i # 0),
                       !.audio = IF rm.out = 0 \/ bad THEN <<>>
                                 ELSE OutputPolicy(f3.m_stereo_enabled, f3.m_stereo_detected,
                                                   f3.m_pilot_shift, m, sv)]
  IN [f |-> f3, o |-> o1, p |-> r.p, po |-> r.o]

\* FmDecoder::process on a block of n IQ samples; s is the pair of values the
\* PLL's filters produce for every MPX sample of the block (the phase
\* discriminator returns one MPX sample per IF sample), mf the outcome of
\* the equalizer.  Result: decoder, PLL and observations afterwards.
FmDecoderProcess(f0, o0, p0, po0, n, s, mf) ==
  LET oc == [o0 EXCEPT !.calls = @ + 1, !.n = n, !.applied = FALSE, !.mf = MfNoOutcome,
                       !.passed = "none", !.start_coeff = f0.m_coeff,
                       !.mono_in = -1, !.stereo_in = -1, !.mono_out = 0,
                       !.stereo_out = 0, !.audio = <<>>]
  IN IF n = 0
     THEN [f |-> f0, o |-> oc, p |-> p0, po |-> po0]
     ELSE FmAudioStage(MultipathStage(f0, mf),
                       IF f0.m_stereo_enabled
                       THEN PllProcess(p0, po0, [k \in 1..n |-> s])
                       ELSE [p |-> p0, o |-> po0],
                       oc, n, s, mf)

\* One call of FmDecoder::process: on an empty block, a block of one sample
\* or a block of MaxN samples, which carries a pilot or none.
\* The pilot the decoder's blocks hold: present or absent, the local tone
\* lagging. The sign of the phase error moves only the PLL's frequency and
\* its PPS events, which FmDecoder::process does not read.
FmPilots == [i : PhasorLevels, e : {1}]
FmProcess ==
  /\ fm_obs.calls < MaxFmCalls
  /\ \E n \in {0, 1, MaxN}, s \in FmPilots :
     \E mf \in IF n > 0 /\ MfRuns(fm) THEN MfOutcomes(fm.m_coeff) ELSE {MfNoOutcome} :
       \E r \in {FmDecoderProcess(fm, fm_obs, pll, pll_obs, n, s, mf)} :
         /\ fm' = r.f
         /\ fm_obs' = r.o
         /\ pll' = r.p
         /\ pll_obs' = r.po

(***************************************************************************)
(* The output selection of FmDecoder::process as a function of its inputs. *)
(***************************************************************************)
\* longest mono-path block tried
MaxPolicyLen == 2
\* sample values of the mono-path and stereo-path blocks
PolicyValues == {-1000, 0, 1000}
PolicyIdle == [detected |-> FALSE, shift |-> FALSE, m |-> <<>>, s |-> <<>>,
               applied |-> FALSE, audio |-> <<>>]
\* The selection is applied to m_buf_mono and m_buf_stereo, stereo enabled.
ApplyPolicy ==
  /\ ~policy.applied
  /\ policy' = [policy EXCEPT !.applied = TRUE,
                              !.audio = OutputPolicy(TRUE, policy.detected, policy.shift,
                                                     policy.m, policy.s)]

(***************************************************************************)
(* The pilot PLL on all-zero input: the phasor low-pass filter.            *)
(***************************************************************************)
\* 2nd order filter, two poles, unit DC gain: a1 = -p1 - p2, a2 = p1 * p2,
\* b0 = 1 + a1 + a2, for p1 = p2 = 1/2 in units of 1/4
m_phasor_a1 == -4
m_phasor_a2 == 1
m_phasor_b0 == 4 + m_phasor_a1 + m_phasor_a2
PhasorLowPass(x, y1, y2) == (m_phasor_b0 * x - m_phasor_a1 * y1 - m_phasor_a2 * y2) \div 4
PhasorInit == [i1 |-> 0, i2 |-> 0, q1 |-> 0, q2 |-> 0]
\* Utility::fast_atan2f(phasor_q, phasor_i) in the model's three phase errors;
\* at the origin, any of them.
FastAtan2(q, i) ==
  IF q = 0 /\ i = 0 THEN {-1, 0, 1}
  ELSE IF q > 0 THEN {1} ELSE IF q < 0 THEN {-1} ELSE {0}
\* The phasor filter on one MPX sample x, with psin and pcos the local tone:
\* the filter memory afterwards and the filtered I and Q.
PhasorStep(ph, x, psin, pcos) ==
  LET i == PhasorLowPass(psin * x, ph.i1, ph.i2)
      q == PhasorLowPass(pcos * x, ph.q1, ph.q2)
  IN [ph |-> [i1 |-> i, i2 |-> ph.i1, q1 |-> q, q2 |-> ph.q1], i |-> i, q |-> q]
\* The filter over n zero samples: the memory afterwards and the filtered I
\* of every sample (the value of the local tone does not matter: psin * 0).
RECURSIVE PhasorRunZero(_, _, _)
PhasorRunZero(ph, n, out) ==
  IF n = 0 THEN [ph |-> ph, out |-> out]
  ELSE LET r == PhasorStep(ph, 0, 1, 1)
       IN PhasorRunZero(r.ph, n - 1, Append(out, [i |-> r.i, q |-> r.q]))
\* One call of PilotPhaseLock::process on a block of n zero samples.
ProcessSilence ==
  \E n \in 0..MaxN :
    /\ pll.m_sample_cnt + n <= MaxSamples
    /\ \E fr \in {PhasorRunZero(phasor, n, <<>>)} :
         \E es \in [1..n -> {-1, 0, 1}] :
           /\ \A k \in 1..n : es[k] \in FastAtan2(fr.out[k].q, fr.out[k].i)
           /\ phasor' = fr.ph
           /\ \E r \in {PllProcess(pll, pll_obs, [k \in 1..n |-> [i |-> fr.out[k].i, e |-> es[k]]])} :
                /\ pll' = r.p
                /\ pll_obs' = r.o

(***************************************************************************)
(* AudioOutput: the encoders samplesToInt16 and samplesToFloat32.  A       *)
(* sample is a fixed-point value in units of 1/EncOne, or NaN.             *)
(***************************************************************************)
\* longest block handed to an encoder
MaxEncLen == 2
\* largest sample magnitude tried, in units of 1/EncOne
MaxEncValue == 6
\* the sample value 1.0
EncOne == 4
\* Convert output to [-32767, 32767].
Int16Scale == 32767
\* IEEE-754 single precision: exponent bias and fraction bits
FloatBias == 127
FloatFracBits == 23

EncValues == (-MaxEncValue..MaxEncValue) \cup {NaN}
Abs(x) == IF x < 0 THEN -x ELSE x
RECURSIVE Log2Floor(_)
Log2Floor(n) == IF n < 2 THEN 0 ELSE 1 + Log2Floor(n \div 2)
\* lrint(q / d), d > 0, in the default rounding mode (to nearest, ties to even)
Lrint(q, d) ==
  LET f == q \div d
      r == q % d
  IN IF 2 * r > d THEN f + 1
     ELSE IF 2 * r < d THEN f
     ELSE IF f % 2 = 0 THEN f ELSE f + 1
\* s = std::max(Sample(-1.0), std::min(Sample(1.0), s))
ClampSampleUpperOnly(x) == StdMin(EncOne, x)
ClampSample(x) == StdMax(-EncOne, StdMin(EncOne, x))
\* long v = lrint(s * 32767)
Int16Value(x) == Lrint(ClampSample(x) * Int16Scale, EncOne)
\* unsigned long u = v; u & 0xff, (u >> 8) & 0xff
Int16Bytes(v) == <<v % 256, (v \div 256) % 256>>
\* bytes.resize(2 * samples.size()) and the loop over the samples
samplesToInt16(smp) ==
  [k \in 1..(2 * Len(smp)) |->
     Int16Bytes(Int16Value(smp[(k + 1) \div 2]))[2 - (k % 2)]]
\* v.f = (float)s; the four bytes of v.u32, low byte first.  The values of
\* the model are exact in single precision; NaN stays a quiet NaN.
Float32Bytes(x) ==
  IF IsNaN(x) THEN <<0, 0, 192, 127>>
  ELSE IF x = 0 THEN <<0, 0, 0, 0>>
  ELSE LET p == Log2Floor(Abs(x))
           e == FloatBias + p - Log2Floor(EncOne)
           f == (Abs(x) - 2 ^ p) * 2 ^ (FloatFracBits - p)
       IN <<f % 256, (f \div 256) % 256,
            (e % 2) * 128 + f \div 65536,
            (IF x < 0 THEN 128 ELSE 0) + e \div 2>>
\* bytes.resize(4 * samples.size()) and the loop over the samples
samplesToFloat32(smp) ==
  [k \in 1..(4 * Len(smp)) |->
     Float32Bytes(smp[(k + 3) \div 4])[((k - 1) % 4) + 1]]

EncIdle == [samples |-> <<>>, int16 |-> <<>>, float32 |-> <<>>,
            done16 |-> FALSE, done32 |-> FALSE]
\* One call of samplesToInt16 on the block.
EncodeInt16 ==
  /\ ~enc.done16
  /\ enc' = [enc EXCEPT !.int16 = samplesToInt16(enc.samples), !.done16 = TRUE]
  /\ UNCHANGED <<policy, phasor, sink, ppsout>>
\* One call of samplesToFloat32 on the block.
EncodeFloat32 ==
  /\ ~enc.done32
  /\ enc' = [enc EXCEPT !.float32 = samplesToFloat32(enc.samples), !.done32 = TRUE]
  /\ UNCHANGED <<policy, phasor, sink, ppsout>>

(***************************************************************************)
(* AudioOutput on its own: WavAudioOutput and PortAudioOutput from         *)
(* construction to destruction, called as write_output_data calls them or  *)
(* in any other order.  Of the WAV file the model keeps the length and the *)
(* two size fields of the header; of the playback stream the frames handed *)
(* to Pa_WriteStream.                                                      *)
(***************************************************************************)
\* calls of write and error() on one output
MaxSinkCalls == 3
\* 2^32 scaled down: the range of a uint32_t header field and of the
\* unsigned sample count
UInt32Range == 256
\* the longest block written, in samples
BigBlock == UInt32Range \div 4
\* the dummy sample count 0x7fff0000 of the header written at open, scaled
DummySamples == UInt32Range \div 2 - 32
\* length of the .WAV header in bytes
WavHeaderLen == 44
\* bytesPerSample
bytesPerSample == 2

SinkModes == {"WAV", "PORTAUDIO"}
SinkBlockLens == {0, 1, 2, BigBlock}
\* Bytes a failing fwrite may still have put into the file.
ShortCounts(n) == {k \in {0, 1, 2} : k < bytesPerSample * n}
NoCall ==
  [op |-> "none", ret |-> TRUE, text |-> FALSE, zombie |-> FALSE, length |-> 0,
   unread |-> FALSE]
SinkIdle ==
  [out |-> NewOutput("RAW"), channels |-> 1, length |-> 0, riff |-> 0, data |-> 0,
   state |-> "none", good |-> 0, calls |-> 0, unread |-> FALSE, usage |-> "off",
   clean |-> TRUE, last |-> NoCall]

\* WavAudioOutput::write_header: the RIFF size and data size fields, and
\* whether assert(nsamples % numberOfChannels == 0) holds.
write_header(channels, nsamples) ==
  [riff |-> (36 + nsamples * bytesPerSample) % UInt32Range,
   data |-> (nsamples * bytesPerSample) % UInt32Range,
   assert_ok |-> nsamples % channels = 0]
\* What the constructors can meet.
OpenOutcomes(mode) ==
  IF mode = "WAV" THEN {"ok", "open_failed", "header_failed"} ELSE {"ok", "pa_failed"}
\* WavAudioOutput::WavAudioOutput, PortAudioOutput::PortAudioOutput
SinkOpen(mode, is_stereo, outcome) ==
  LET failed == [NewOutput(mode) EXCEPT !.m_error = TRUE, !.m_zombie = TRUE]
      h == write_header(IF is_stereo THEN 2 ELSE 1, DummySamples)
      base == [SinkIdle EXCEPT !.channels = IF is_stereo THEN 2 ELSE 1,
                               !.state = "open"]
  IN IF outcome = "ok"
     THEN [base EXCEPT !.out = NewOutput(mode),
                       !.length = IF mode = "WAV" THEN WavHeaderLen ELSE 0,
                       !.riff = IF mode = "WAV" THEN h.riff ELSE 0,
                       !.data = IF mode = "WAV" THEN h.data ELSE 0,
                       !.usage = "writing"]
     ELSE [base EXCEPT !.out = failed, !.unread = TRUE]

\* WavAudioOutput::write, PortAudioOutput::write on a block of n samples;
\* k is the number of bytes a failing fwrite left in the file.
SinkWriteCall(sk, n, outcome, k) ==
  LET w == OutputWrite(sk.out, outcome)
      grown ==
        IF sk.out.m_zombie THEN sk.length
        ELSE IF sk.out.mode = "WAV"
             THEN IF outcome = "ok" THEN sk.length + bytesPerSample * n
                                    ELSE sk.length + k
             ELSE IF outcome = "error" THEN sk.length
                                       ELSE sk.length + n \div sk.channels
  IN [sk EXCEPT
        !.out = w.out,
        !.length = grown,
        !.good = IF w.ret THEN @ + n ELSE @,
        !.calls = @ + 1,
        !.unread = @ \/ (w.out.m_error /\ ~sk.out.m_error),
        !.clean = @ /\ w.ret,
        !.usage = IF sk.usage = "writing" /\ n % sk.channels = 0
                  THEN IF OutputReady(w.out) THEN "writing" ELSE "failed"
                  ELSE "off",
        !.last = [op |-> "write", ret |-> w.ret, text |-> FALSE,
                  zombie |-> sk.out.m_zombie, length |-> sk.length,
                  unread |-> sk.unread]]
SinkWrite ==
  /\ sink.state = "open"
  /\ sink.calls < MaxSinkCalls
  /\ \E n \in SinkBlockLens, outcome \in WriteOutcomes(sink.out) :
       \E k \in IF outcome = "error" /\ sink.out.mode = "WAV"
                THEN ShortCounts(n) ELSE {0} :
         sink' = SinkWriteCall(sink, n, outcome, k)
  /\ UNCHANGED <<policy, phasor, enc, ppsout>>
\* AudioOutput::error
SinkError ==
  /\ sink.state = "open"
  /\ sink.calls < MaxSinkCalls
  /\ sink' = [sink EXCEPT
                !.out = OutputErrorRead(@),
                !.calls = @ + 1,
                !.unread = FALSE,
                !.usage = IF @ = "failed" THEN "stopped" ELSE "off",
                !.last = [op |-> "error", ret |-> TRUE, text |-> sink.out.m_error,
                          zombie |-> sink.out.m_zombie, length |-> sink.length,
                          unread |-> sink.unread]]
  /\ UNCHANGED <<policy, phasor, enc, ppsout>>
\* WavAudioOutput::~WavAudioOutput: the asserts either end the process
\* (aborted) or are compiled out (NDEBUG); PortAudioOutput::~PortAudioOutput.
SinkCloseNoRewrite(sk, asserts) ==
  [sk EXCEPT !.state = "closed", !.usage = IF @ = "failed" THEN "off" ELSE @]
SinkClose(sk, asserts) ==
  LET currentPosition == sk.length
      totalNumberOfSamples ==
        ((currentPosition - WavHeaderLen) \div bytesPerSample) % UInt32Range
      h == write_header(sk.channels, totalNumberOfSamples)
      ok == /\ (currentPosition - WavHeaderLen) % bytesPerSample = 0
            /\ totalNumberOfSamples % sk.channels = 0
            /\ h.assert_ok
      done == [sk EXCEPT !.state = "closed",
                         !.usage = IF @ = "failed" THEN "off" ELSE @]
  IN IF sk.out.mode # "WAV" \/ sk.out.m_zombie THEN done
     ELSE IF asserts /\ ~ok THEN [done EXCEPT !.state = "aborted"]
     ELSE [done EXCEPT !.riff = h.riff, !.data = h.data]
SinkDestroy ==
  /\ sink.state = "open"
  /\ \E asserts \in BOOLEAN : sink' = SinkClose(sink, asserts)
  /\ UNCHANGED <<policy, phasor, enc, ppsout>>

(***************************************************************************)
(* The PPS output of main in FM mode with a PPS file: after the decoder    *)
(* call of an iteration, the loop over fm.get_pps_events() writes one line *)
(* per event and erases the first pending event after each line.           *)
(***************************************************************************)
\* iterations of the main loop in one run
MaxPpsBlocks == 3
\* most PPS events the decoder leaves pending after one block
MaxPpsEvents == 3

\* The events one call of the decoder leaves pending: k events numbered from
\* cnt on, at increasing samples of the block that starts at sample smp.
NewPpsEvents(cnt, smp, k) ==
  [j \in 1..k |-> [pps_index |-> cnt + j - 1, sample_index |-> smp + j - 1]]
\* FmDecoder::get_pps_events: the pending events of the pilot PLL, returned
\* as a vector of its own.
get_pps_events(events) == events
\* FmDecoder::erase_first_pps_event
erase_first_pps_event(events) == IF events = <<>> THEN events ELSE Tail(events)

\*   m_pps_events  the pending events of the decoder's pilot PLL,
\*   m_pps_cnt, m_sample_cnt  its event and sample counters,
\*   range, it     the vector the range-for runs over, and its position,
\*   lines         the lines written to the PPS file, with the iteration of each,
\*   produced      every event a decoder call left pending, with its iteration,
\*   decoded       the decoder was called in the last iteration.
PpsIdle ==
  [pc |-> "decode", block |-> 0, m_pps_events |-> <<>>, m_pps_cnt |-> 0,
   m_sample_cnt |-> 0, range |-> <<>>, it |-> 1, lines |-> <<>>,
   produced |-> <<>>, decoded |-> FALSE]
Stamp(events, b) ==
  [j \in 1..Len(events) |-> [pps_index |-> events[j].pps_index,
                             sample_index |-> events[j].sample_index,
                             block |-> b]]
\* if (if_exists) fm.process(if_samples, audiosamples): the pilot PLL clears
\* the pending list and fills it with the events of this block; a block that
\* ends unlocked leaves none and restarts the numbering.
PpsDecode ==
  /\ ppsout.pc = "decode"
  /\ ppsout.block < MaxPpsBlocks
  /\ \E k \in 0..MaxPpsEvents, unlocked \in BOOLEAN :
       \E evs \in {IF unlocked THEN <<>>
                   ELSE NewPpsEvents(ppsout.m_pps_cnt, ppsout.m_sample_cnt, k)} :
         ppsout' = [ppsout EXCEPT
                      !.pc = "range",
                      !.m_pps_events = evs,
                      !.m_pps_cnt = IF unlocked THEN 0 ELSE @ + k,
                      !.m_sample_cnt = @ + MaxPpsEvents,
                      !.produced = @ \o Stamp(evs, ppsout.block),
                      !.decoded = TRUE]
  /\ UNCHANGED <<policy, phasor, enc, sink>>
\* An iteration whose IF block is empty: no decoder is called.
PpsNoDecode ==
  /\ ppsout.pc = "decode"
  /\ ppsout.block < MaxPpsBlocks
  /\ ppsout' = [ppsout EXCEPT !.pc = "range", !.decoded = FALSE]
  /\ UNCHANGED <<policy, phasor, enc, sink>>
\* for (const PilotPhaseLock::PpsEvent &ev : fm.get_pps_events()): the range
\* expression is evaluated once.
PpsRange ==
  /\ ppsout.pc = "range"
  /\ ppsout' = [ppsout EXCEPT !.pc = "loop",
                              !.range = get_pps_events(ppsout.m_pps_events),
                              !.it = 1]
  /\ UNCHANGED <<policy, phasor, enc, sink>>
\* The loop body: fprintf of the event, fm.erase_first_pps_event().
PpsWriteNoErase ==
  /\ ppsout.pc = "loop"
  /\ ppsout.it <= Len(ppsout.range)
  /\ ppsout' = [ppsout EXCEPT
                  !.lines = @ \o Stamp(<<ppsout.range[ppsout.it]>>, ppsout.block),
                  !.it = @ + 1]
  /\ UNCHANGED <<policy, phasor, enc, sink>>
PpsWrite ==
  /\ ppsout.pc = "loop"
  /\ ppsout.it <= Len(ppsout.range)
  /\ ppsout' = [ppsout EXCEPT
                  !.lines = @ \o Stamp(<<ppsout.range[ppsout.it]>>, ppsout.block),
                  !.m_pps_events = erase_first_pps_event(@),
                  !.it = @ + 1]
  /\ UNCHANGED <<policy, phasor, enc, sink>>
\* The end of the range: the rest of the iteration, block++.
PpsLoopEnd ==
  /\ ppsout.pc = "loop"
  /\ ppsout.it > Len(ppsout.range)
  /\ ppsout' = [ppsout EXCEPT !.pc = "decode", !.block = @ + 1, !.range = <<>>, !.it = 1]
  /\ UNCHANGED <<policy, phasor, enc, sink>>

\* No selection and no silent run in progress.
IoIdle == enc = EncIdle /\ sink = SinkIdle /\ ppsout = PpsIdle
DspIdle == policy = PolicyIdle /\ phasor = PhasorInit /\ IoIdle
\* A decoder not in use.
FmIdle == fm = FmInit(TRUE, FALSE, FALSE) /\ fm_obs = FmObsInit /\ DspIdle

Init ==
  /\ PipeStart
  /\ audio_output \in {NewOutput(m) : m \in PipeOutputModes}
  /\ buf_minfill \in {1, MaxMinfill}
  /\ CfgStart
  /\ pll = PllInit /\ pll_obs = ObsInit
  /\ FmIdle
Next ==
  (SrcStep \/ (SigTerm /\ UNCHANGED exit_code) \/ MainStep \/ OutStep)
    /\ UNCHANGED <<pllVars, cfgVars, buf_minfill, fmVars, dspVars>>
Spec == Init /\ [][Next]_vars
\* Fair scheduling of the three threads.
SpecFair ==
  /\ Spec
  /\ WF_vars(SrcStep /\ UNCHANGED <<pllVars, cfgVars, buf_minfill, fmVars, dspVars>>)
  /\ WF_vars(MainStep /\ UNCHANGED <<pllVars, cfgVars, buf_minfill, fmVars, dspVars>>)
  /\ WF_vars(OutStep /\ UNCHANGED <<pllVars, cfgVars, buf_minfill, fmVars, dspVars>>)

InitCfg ==
  /\ CfgStart /\ buf_minfill = 0
  /\ PipeStart /\ audio_output = NewOutput("RAW")
  /\ pll = PllInit /\ pll_obs = ObsInit
  /\ FmIdle
NextCfg == (OptB \/ OptM \/ StartOutput) /\ UNCHANGED <<pllVars, pipeVars, fmVars, dspVars>>
SpecCfg == InitCfg /\ [][NextCfg]_vars

\* The whole program: start-up, then the three threads, then the exit.
InitRun ==
  /\ cfg_pc = "getopt" /\ bufsecs = -100000 /\ stereo = TRUE
  /\ outputbuf_samples = 0
  /\ startup \in StartupInputs
  /\ exit_code = NoExit
  /\ PipeStart /\ audio_output = NewOutput("PORTAUDIO") /\ buf_minfill = 1
  /\ pll = PllInit /\ pll_obs = ObsInit
  /\ FmIdle
NextRun ==
  \/ StartupStep /\ UNCHANGED <<pllVars, pipeVars, fmVars, dspVars>>
  \/ /\ HandlerInstalled
     /\ SigTerm
     /\ UNCHANGED <<pllVars, cfgVars, buf_minfill, exit_code, fmVars, dspVars>>
  \/ /\ cfg_pc = "run"
     /\ SrcStep \/ MainStep \/ OutStep
     /\ UNCHANGED <<pllVars, cfgVars, buf_minfill, fmVars, dspVars>>
SpecRun == InitRun /\ [][NextRun]_vars

InitPLL ==
  /\ pll = PllInit /\ pll_obs = ObsInit
  /\ PipeStart /\ audio_output = NewOutput("RAW") /\ buf_minfill = 1
  /\ CfgStart
  /\ FmIdle
NextPLL == Process /\ UNCHANGED <<pipeVars, cfgVars, buf_minfill, exit_code, fmVars, dspVars>>
SpecPLL == InitPLL /\ [][NextPLL]_vars

\* The output selection on every pair of blocks of equal length.
InitPolicy ==
  /\ \E d \in BOOLEAN, x \in BOOLEAN, n \in 0..MaxPolicyLen :
       \E m \in [1..n -> PolicyValues], sv \in [1..n -> PolicyValues] :
         policy = [detected |-> d, shift |-> x, m |-> m, s |-> sv,
                   applied |-> FALSE, audio |-> <<>>]
  /\ phasor = PhasorInit /\ IoIdle
  /\ fm = FmInit(TRUE, FALSE, FALSE) /\ fm_obs = FmObsInit
  /\ pll = PllInit /\ pll_obs = ObsInit
  /\ PipeStart /\ audio_output = NewOutput("RAW") /\ buf_minfill = 1
  /\ CfgStart
NextPolicy ==
  ApplyPolicy /\ UNCHANGED <<pllVars, pipeVars, cfgVars, buf_minfill, exit_code, fmVars, phasor, enc, sink, ppsout>>
SpecPolicy == InitPolicy /\ [][NextPolicy]_vars

\* The encoders on every block of at most MaxEncLen samples.
InitEnc ==
  /\ \E n \in 0..MaxEncLen : \E b \in [1..n -> EncValues] :
       enc = [EncIdle EXCEPT !.samples = b]
  /\ sink = SinkIdle /\ ppsout = PpsIdle
  /\ policy = PolicyIdle /\ phasor = PhasorInit
  /\ fm = FmInit(TRUE, FALSE, FALSE) /\ fm_obs = FmObsInit
  /\ pll = PllInit /\ pll_obs = ObsInit
  /\ PipeStart /\ audio_output = NewOutput("RAW") /\ buf_minfill = 1
  /\ CfgStart
NextEnc ==
  (EncodeInt16 \/ EncodeFloat32)
    /\ UNCHANGED <<pllVars, pipeVars, cfgVars, buf_minfill, exit_code, fmVars>>
SpecEnc == InitEnc /\ [][NextEnc]_vars

\* An audio output of either kind, mono or stereo, from its construction.
InitSink ==
  /\ \E mode \in SinkModes, is_stereo \in BOOLEAN :
       \E outcome \in OpenOutcomes(mode) : sink = SinkOpen(mode, is_stereo, outcome)
  /\ enc = EncIdle /\ ppsout = PpsIdle
  /\ policy = PolicyIdle /\ phasor = PhasorInit
  /\ fm = FmInit(TRUE, FALSE, FALSE) /\ fm_obs = FmObsInit
  /\ pll = PllInit /\ pll_obs = ObsInit
  /\ PipeStart /\ audio_output = NewOutput("RAW") /\ buf_minfill = 1
  /\ CfgStart
NextSink ==
  (SinkWrite \/ SinkError \/ SinkDestroy)
    /\ UNCHANGED <<pllVars, pipeVars, cfgVars, buf_minfill, exit_code, fmVars>>
SpecSink == InitSink /\ [][NextSink]_vars

\* The PPS output loop on its own.
InitPps ==
  /\ ppsout = PpsIdle
  /\ enc = EncIdle /\ sink = SinkIdle
  /\ policy = PolicyIdle /\ phasor = PhasorInit
  /\ fm = FmInit(TRUE, FALSE, FALSE) /\ fm_obs = FmObsInit
  /\ pll = PllInit /\ pll_obs = ObsInit
  /\ PipeStart /\ audio_output = NewOutput("RAW") /\ buf_minfill = 1
  /\ CfgStart
NextPps ==
  (PpsDecode \/ PpsNoDecode \/ PpsRange \/ PpsWrite \/ PpsLoopEnd)
    /\ UNCHANGED <<pllVars, pipeVars, cfgVars, buf_minfill, exit_code, fmVars>>
SpecPps == InitPps /\ [][NextPps]_vars

\* A freshly constructed PLL fed with zero samples only.
NextSilence ==
  ProcessSilence /\ UNCHANGED <<pipeVars, cfgVars, buf_minfill, exit_code, fmVars, policy, enc, sink, ppsout>>
SpecSilence == InitPLL /\ [][NextSilence]_vars

\* A decoder constructed with any of its options, then called block by block.
InitFM ==
  /\ \E se \in BOOLEAN, ps \in BOOLEAN, mp \in BOOLEAN :
       \* -X is ignored under mono mode (-M)
       /\ ps => se
       /\ fm = FmInit(se, ps, mp)
  /\ fm_obs = FmObsInit
  /\ DspIdle
  /\ pll = PllInit /\ pll_obs = ObsInit
  /\ PipeStart /\ audio_output = NewOutput("RAW") /\ buf_minfill = 1
  /\ CfgStart
NextFM == FmProcess /\ UNCHANGED <<pipeVars, cfgVars, buf_minfill, exit_code, dspVars>>
SpecFM == InitFM /\ [][NextFM]_vars

(***************************************************************************)
(* Pilot PLL: lock state machine, PPS generator, frequency limit.          *)
(***************************************************************************)

\* C1 Lock hysteresis: starting from the unlocked PLL, the PLL reports locked
\* (m_lock_cnt >= m_lock_delay) only when the run of consecutive blocks that
\* met 2 * m_pilot_level > m_minsignal holds at least m_lock_delay samples.
C1_LockHysteresis == locked(pll) => pll_obs.run >= m_lock_delay
\* The PLL locked on a run of exactly m_lock_delay samples that started after
\* an earlier block had failed the threshold.
C1_Witness ==
  /\ locked(pll)
  /\ pll_obs.run = m_lock_delay
  /\ pll.m_sample_cnt > m_lock_delay

\* C2 Immediate loss of lock: after a non-empty block whose pilot level (the
\* minimum filtered I of the block) fails 2 * m_pilot_level > m_minsignal,
\* m_lock_cnt is 0 and the PLL is unlocked, whatever it was before.
C2_ImmediateLoss ==
  (pll_obs.n > 0 /\ ~LevelOk(pll))
    => (pll.m_lock_cnt = 0 /\ ~locked(pll))
\* A locked PLL lost the lock on one failing block.
C2_Witness ==
  /\ pll_obs.n > 0
  /\ pll_obs.was
  /\ ~LevelOk(pll)
  /\ pll.m_lock_cnt = 0

\* C3 After every return of process, an unlocked PLL has m_pilot_periods = 0,
\* m_pps_cnt = 0 and no pending PPS event.
C3_UnlockedCleared ==
  ~locked(pll) =>
    /\ pll.m_pilot_periods = 0
    /\ pll.m_pps_cnt = 0
    /\ pll.m_pps_events = <<>>
\* PPS events were generated during a block which ended unlocked.
C3_Witness ==
  /\ ~locked(pll)
  /\ pll_obs.gen > 0
  /\ pll.m_pps_events = <<>>

\* C4 PPS cadence: every PPS event that follows another one of the same locked
\* period was generated exactly pilot_frequency phase wraps after it, and
\* while locked after an event the wraps counted since it are the value of
\* the pilot-period counter, below pilot_frequency.
C4_PpsCadence ==
  /\ \A k \in 1..Len(pll.m_pps_events) :
        pll.m_pps_events[k].pps_index > 0 => pll_obs.gaps[k] = pilot_frequency
  /\ (locked(pll) /\ pll.m_pps_cnt > 0) =>
        (pll_obs.wraps = pll.m_pilot_periods /\ pll_obs.wraps < pilot_frequency)
\* A second PPS event of one locked period is pending.
C4_Witness ==
  \E k \in 1..Len(pll.m_pps_events) :
    /\ pll.m_pps_events[k].pps_index = 1
    /\ pll_obs.gaps[k] = pilot_frequency

\* C5 PLL clamp: m_minfreq <= m_freq <= m_maxfreq after every sample of every
\* block, for every input value (NaN included), and right after construction.
C5_FreqClamp ==
  /\ Leq(m_minfreq, pll.m_freq)
  /\ Leq(pll.m_freq, m_maxfreq)
  /\ pll_obs.inrng
\* The limit acted during the last block and left the frequency at the lower
\* end, in a run in which the limit had already met a NaN.
C5_Witness ==
  /\ pll_obs.clamp
  /\ pll.m_freq = m_minfreq
  /\ pll.m_loopfilter_x1 = -1
  /\ pll_obs.nan

(***************************************************************************)
(* Pipeline: termination, delivery, queue accounting, backpressure.        *)
(***************************************************************************)

\* C6 Termination: once stop_flag is set (by a signal, by the source after a
\* device error or by the consumer after a sink error), under fair scheduling
\* main leaves its loop, the source has stopped, end-of-stream is marked on
\* the audio queue, the consumer has ended and main has returned.
C6_Termination ==
  stop_flag ~> (/\ main_pc = "done"
                /\ out_pc = "done"
                /\ src.pc = "done"
                /\ output_buffer.end_marked)
\* main has returned after the flag was set while the consumer had been
\* waiting for the queue to fill.
C6_Witness ==
  /\ stop_flag
  /\ main_pc = "done"
  /\ out_pc = "done"
  /\ pipe_obs.waited
  /\ output_buffer.end_marked

\* C7 The blocks written are always the first blocks pushed, in the order of
\* the pushes, and when the consumer ends with the termination flag never set
\* every block pushed has been written exactly once.
C7_AllWrittenInOrder ==
  /\ IsPrefix(pipe_obs.written, pipe_obs.pushed)
  /\ (out_pc = "done" /\ ~stop_flag) => pipe_obs.written = pipe_obs.pushed
\* The consumer ended at end-of-stream after writing two blocks.
C7_Witness ==
  /\ out_pc = "done"
  /\ ~stop_flag
  /\ Len(pipe_obs.written) >= 2
  /\ pipe_obs.written = pipe_obs.pushed

\* C8 Queue conservation: in every state, for both queues, queued_samples is
\* the sum of the sizes of the blocks enqueued.
C8_QueueConservation ==
  /\ queued_samples(source_buffer) = SumSizes(source_buffer.queue)
  /\ queued_samples(output_buffer) = SumSizes(output_buffer.queue)
\* The audio queue holds a block of two samples after a block was pulled from
\* it, and every IQ block has gone through the IQ queue.
C8_Witness ==
  /\ output_buffer.queue # <<>>
  /\ queued_samples(output_buffer) >= 2
  /\ pipe_obs.written # <<>>
  /\ src.pushed = MaxIqBlocks
  /\ source_buffer.queue = <<>>

\* C9 Consumer backpressure: when the consumer goes on after waiting,
\* queued_samples >= buf_minfill or end-of-stream holds; it calls pull only on
\* a non-empty queue, so pull never returns the empty end-of-stream block.
C9_Backpressure ==
  /\ (out_pc = "end_check" /\ pipe_obs.waited) => BufFilled(output_buffer, buf_minfill)
  /\ out_pc = "pull" => output_buffer.queue # <<>>
  /\ ~pipe_obs.empty_pull
\* After a wait that end-of-stream ended, the consumer pulls the blocks left
\* below the threshold.
C9_Witness ==
  /\ out_pc = "pull"
  /\ pipe_obs.waited
  /\ output_buffer.end_marked
  /\ output_buffer.queue # <<>>
  /\ queued_samples(output_buffer) < buf_minfill

(***************************************************************************)
(* Start-up: the minimum-fill threshold.                                   *)
(***************************************************************************)

\* C10 For every accepted -b value (any value >= 0), the threshold handed to
\* the consumer is seconds x pcmrate x channels, with a minimum of 480
\* samples per channel.
C10_MinfillFormula ==
  (cfg_pc = "ready" /\ bufsecs >= 0) =>
    buf_minfill = Max(SecsToSamples(bufsecs), MinOutputbuf) * (IF stereo THEN 2 ELSE 1)

(***************************************************************************)
(* Main loop: the overflow warning of the source queue.                    *)
(***************************************************************************)

\* C11 Source-queue overflow warning: the warning is printed at most once per
\* run, at the first block boundary where the worker sees more than
\* InbufWarnLimit queued IQ samples; the check never sets the termination
\* flag and always goes on to pull and process the block.
C11_WarnOnceNeverFatal ==
  /\ [](/\ pipe_obs.warnings <= 1
        /\ inbuf_length_warning <=> pipe_obs.warnings = 1)
  /\ [][(main_pc = "warn" /\ main_pc' # "warn") =>
          /\ queued_samples(source_buffer) > InbufWarnLimit => pipe_obs'.warnings = 1
          /\ (queued_samples(source_buffer) <= InbufWarnLimit)
                => pipe_obs'.warnings = pipe_obs.warnings
          /\ stop_flag' = stop_flag
          /\ main_pc' = "pull"
          /\ source_buffer' = source_buffer
          /\ block' = block]_vars
\* The run ended at end-of-stream with the flag never set: the warning was
\* printed once, at a block after the first, and two blocks were pushed.
C11_Witness ==
  /\ pipe_obs.warnings = 1
  /\ main_pc = "done"
  /\ ~stop_flag
  /\ Len(pipe_obs.pushed) >= 2

\* C19 Sink errors: a write that leaves the audio output not ready (error
\* text set or zombie) makes the consumer set the termination flag; a
\* playback underflow makes write return true, sets neither the error text
\* nor zombie and leaves the termination flag as it was: the block counts as
\* written and the consumer goes on; so does every write that leaves the
\* output ready.
C19_SinkErrors ==
  [][(out_pc = "write" /\ out_pc' = "test") =>
       LET w == pipe_obs'.last_write
       IN /\ (~w.ready) => stop_flag'
          /\ w.ready => stop_flag' = stop_flag
          /\ w.outcome = "error" => ~w.ready
          /\ w.outcome = "underflow" =>
                /\ w.ret
                /\ w.ready
                /\ ~audio_output'.m_error
                /\ ~audio_output'.m_zombie
                /\ stop_flag' = stop_flag
                /\ pipe_obs'.written = Append(pipe_obs.written, samples)]_vars
\* A second block was written through an underflow and the flag is not set.
C19_Witness ==
  /\ out_pc = "test"
  /\ pipe_obs.last_write.outcome = "underflow"
  /\ Len(pipe_obs.written) >= 2
  /\ ~stop_flag

(***************************************************************************)
(* FmDecoder: multipath start-up and reset, resamplers, stereo indication. *)
(***************************************************************************)

\* C12 Multipath start-up grace: the first WaitBlocks non-empty blocks a
\* decoder processes bypass the equalizer (the IF AGC output goes to the
\* phase discriminator and the coefficients stay as constructed); with the
\* equalizer enabled it is run on every block after them.
C12_MultipathGrace ==
  /\ (fm_obs.n > 0 /\ fm_obs.blocks <= WaitBlocks) =>
        /\ ~fm_obs.applied
        /\ fm_obs.passed = "agc"
        /\ fm.m_coeff = MfInitial
        /\ fm.m_wait_multipath_blocks = WaitBlocks - fm_obs.blocks
  /\ (fm_obs.n > 0 /\ fm_obs.blocks > WaitBlocks /\ fm.m_enable_multipath_filter) =>
        fm_obs.applied
\* The first block after the grace period went through the equalizer, in a
\* run in which an empty block had been handed to the decoder.
C12_Witness ==
  /\ fm_obs.blocks = WaitBlocks + 1
  /\ fm_obs.calls > fm_obs.blocks
  /\ fm_obs.applied
  /\ fm_obs.passed = "equalizer"

\* C13 Multipath reset: on a block where the equalizer was run and left a
\* non-finite error or a reference level of magnitude below 0.01, the
\* coefficients are the initial ones again and the IF AGC output, not the
\* equalizer's, went to the phase discriminator; the block is decoded as any
\* other and the termination flag is not set.
C13_MultipathReset ==
  (fm_obs.applied /\ ((~fm_obs.mf.error_finite) \/ fm_obs.mf.reference_level = 0)) =>
    /\ fm.m_coeff = MfInitial
    /\ fm_obs.passed = "agc"
    /\ fm_obs.mono_in = fm_obs.n
    /\ ~stop_flag
\* The reference level vanished with a finite error and adapted coefficients.
C13_Witness ==
  /\ fm_obs.applied
  /\ fm_obs.mf.error_finite
  /\ fm_obs.mf.reference_level = 0
  /\ fm_obs.mf.coeff = <<1, 1, 0>>
  /\ fm.m_coeff = MfInitial
  /\ fm_obs.passed = "agc"

C15_ResamplerLockstep ==
  fm.m_stereo_enabled =>
    /\ fm_obs.stereo_in = fm_obs.mono_in
    /\ fm_obs.stereo_out = fm_obs.mono_out
    /\ fm.stereo_acc = fm.mono_acc
    /\ ~fm_obs.assert_failed
\* Both resamplers were advanced by an odd block while the PLL was not
\* locked, after a call that had left a sample over.
C15_Witness ==
  /\ fm.m_stereo_enabled
  /\ ~locked(pll)
  /\ fm_obs.mono_in = 1
  /\ fm_obs.stereo_in = 1
  /\ fm_obs.mono_out = 1
  /\ fm_obs.audio # <<>>

\* C17 With no pilot in the input the PLL never locks and the decoder reports
\* stereo_detected = false after every block.
C17_NoPilotNoStereo ==
  (~fm_obs.pilot) => (~locked(pll) /\ ~fm.m_stereo_detected)

\* C16 FM output policy with stereo enabled, for the mono-path block M and
\* the stereo-path block S: detected and no pilot-shift gives interleaved
\* (M + 1.017 S, M - 1.017 S); detected and pilot-shift gives interleaved
\* (S, S), S not boosted; not detected and no pilot-shift gives interleaved
\* (M, M); not detected and pilot-shift gives zeros; the audio block always
\* has twice the length of the mono-path block.
C16_OutputPolicy ==
  policy.applied =>
    /\ Len(policy.audio) = 2 * Len(policy.m)
    /\ \A k \in 1..Len(policy.m) :
         LET l == policy.audio[2 * k - 1]
             r == policy.audio[2 * k]
             mk == policy.m[k]
             sk == policy.s[k]
             boosted == (sk * 1017) \div 1000
         IN /\ (policy.detected /\ ~policy.shift) => (l = mk + boosted /\ r = mk - boosted)
            /\ (policy.detected /\ policy.shift) => (l = sk /\ r = sk)
            /\ ((~policy.detected) /\ ~policy.shift) => (l = mk /\ r = mk)
            /\ ((~policy.detected) /\ policy.shift) => (l = 0 /\ r = 0)
\* Pilot-shift output of two samples with stereo detected.
C16_Witness ==
  /\ policy.applied
  /\ policy.detected
  /\ policy.shift
  /\ policy.s = <<1000, -1000>>
  /\ policy.m = <<0, 1000>>
  /\ policy.audio = <<1000, 1000, -1000, -1000>>
\* C16 as stated: the stereo-path block S is the boosted one in every case,
\* also in the pilot-shift output (S, S).
C16_OutputPolicyBoostedS ==
  policy.applied =>
    /\ Len(policy.audio) = 2 * Len(policy.m)
    /\ \A k \in 1..Len(policy.m) :
         LET l == policy.audio[2 * k - 1]
             r == policy.audio[2 * k]
             mk == policy.m[k]
             boosted == (policy.s[k] * 1017) \div 1000
         IN /\ (policy.detected /\ ~policy.shift) => (l = mk + boosted /\ r = mk - boosted)
            /\ (policy.detected /\ policy.shift) => (l = boosted /\ r = boosted)
            /\ ((~policy.detected) /\ ~policy.shift) => (l = mk /\ r = mk)
            /\ ((~policy.detected) /\ policy.shift) => (l = 0 /\ r = 0)

(***************************************************************************)
(* Pilot PLL on silence.                                                   *)
(***************************************************************************)

\* C18 Silence: a freshly constructed PLL fed with zero samples only, in
\* blocks of any number and sizes, is never locked and never holds a PPS
\* event; its lock counter and the phasor filter's memory stay zero.
C18_SilenceNeverLocks ==
  /\ ~locked(pll)
  /\ pll.m_lock_cnt = 0
  /\ pll.m_pps_events = <<>>
  /\ pll_obs.gen = 0
  /\ phasor = PhasorInit
\* Silence for more than m_lock_delay samples, over which the phase has
\* wrapped at least pilot_frequency times.
C18_Witness ==
  /\ pll.m_sample_cnt > m_lock_delay + MaxN
  /\ pll_obs.n = MaxN
  /\ pll_obs.wraps >= pilot_frequency
  /\ ~locked(pll)

(***************************************************************************)
(* Exit codes.                                                             *)
(***************************************************************************)

C20_ReturnZero ==
  /\ exit_code = 0
  /\ stop_flag
  /\ block > 0
  /\ OutputReady(audio_output)

(***************************************************************************)
(* The encoders.                                                           *)
(***************************************************************************)
\* The signed value of two bytes, low byte first, in two's complement.
FromInt16LE(lo, hi) ==
  LET u == lo + 256 * hi IN IF u >= 32768 THEN u - 65536 ELSE u
\* |value| * EncOne of four bytes holding a single-precision number, low
\* byte first; its sign bit.
Float32Magnitude(b) ==
  LET e == (b[4] % 128) * 2 + b[3] \div 128
      f == (b[3] % 128) * 65536 + b[2] * 256 + b[1]
  IN IF e = 0 /\ f = 0 THEN 0
     ELSE LET sh == e - FloatBias - FloatFracBits + Log2Floor(EncOne)
              m == 2 ^ FloatFracBits + f
          IN IF sh >= 0 THEN m * 2 ^ sh
             ELSE IF m % (2 ^ (-sh)) = 0 THEN m \div (2 ^ (-sh)) ELSE -1
Float32Negative(b) == b[4] >= 128

WavWrittenAndClosed ==
  /\ sink.out.mode = "WAV"
  /\ sink.state \in {"closed", "aborted"}
  /\ ~sink.out.m_zombie
  /\ sink.clean

C23_WavDivisible ==
  ( /\ sink.out.mode = "WAV"
    /\ sink.state \in {"closed", "aborted"}
    /\ ~sink.out.m_zombie
    /\ sink.usage # "off" ) =>
      /\ (sink.length - WavHeaderLen) % bytesPerSample = 0
      /\ ((sink.length - WavHeaderLen) \div bytesPerSample) % sink.channels = 0
      /\ sink.state = "closed"

\* C29 Health of an audio output: m_zombie is never cleared; write on a
\* zombie returns false and writes nothing; an output that is not a zombie
\* is ready exactly while no error text is waiting to be read; error()
\* returns the waiting text (none when there is none) and clears it, after
\* which an output that is not a zombie is ready.
C29_OutputHealth ==
  /\ [](sink.state # "none" =>
          /\ (sink.last.op = "write" /\ sink.last.zombie) =>
                /\ ~sink.last.ret
                /\ sink.length = sink.last.length
                /\ sink.out.m_error = sink.last.unread
          /\ sink.out.m_error <=> sink.unread
          /\ (~sink.out.m_zombie) => (OutputReady(sink.out) <=> ~sink.unread)
          /\ sink.last.op = "error" =>
                /\ sink.last.text <=> sink.last.unread
                /\ ~sink.out.m_error
                /\ (~sink.out.m_zombie) => OutputReady(sink.out))
  /\ [][sink.out.m_zombie => sink'.out.m_zombie]_vars
\* A WAV output whose write failed, after error() returned the text: not a
\* zombie, and ready again.
C29_Witness ==
  /\ sink.out.mode = "WAV"
  /\ sink.state = "open"
  /\ sink.last.op = "error" /\ sink.last.text
  /\ ~sink.clean
  /\ OutputReady(sink.out)
\* A playback output that became a zombie in a write, written to again.
C29_ZombieWrite ==
  /\ sink.out.mode = "PORTAUDIO"
  /\ sink.last.op = "write" /\ sink.last.zombie
  /\ sink.good > 0

(***************************************************************************)
(* The termination flag.                                                   *)
(***************************************************************************)
\* C24 The termination flag is monotonic: it is false until the signal
\* handlers are installed, and no step of any thread (the signal handler,
\* the consumer, the source, the worker) takes it from true to false.
C24_StopFlagMonotonic ==
  /\ [](cfg_pc \in {"getopt", "types"} => ~stop_flag)
  /\ [][stop_flag => stop_flag']_vars
\* The flag was set while the consumer was about to write; the consumer has
\* written that block successfully since, and the flag is still set.
C24_Witness ==
  /\ stop_flag
  /\ out_pc = "test"
  /\ pipe_obs.last_write.outcome = "ok"
  /\ pipe_obs.last_write.ready

(***************************************************************************)
(* The start-up discard and the end of the audio stream.                   *)
(***************************************************************************)
\* C25 Every audio block pushed to the audio queue, and so every block the
\* consumer writes to the sink, is non-empty and was decoded in an iteration
\* whose block number is greater than discarding_blocks.
C25_StartupDiscard ==
  /\ \A k \in 1..Len(pipe_obs.pushed) :
       pipe_obs.pushed[k].n > 0 /\ pipe_obs.pushed[k].blk > discarding_blocks
  /\ \A k \in 1..Len(pipe_obs.written) :
       pipe_obs.written[k].blk > discarding_blocks

\* C27 The end marker is on the audio queue exactly when the worker has
\* passed output_buffer.push_end(): it is absent while the worker loops or
\* stops the source, present when the worker joins the consumer and after,
\* it is never taken back, and no audio block is pushed once it is there.
C27_EndOfStream ==
  /\ [](output_buffer.end_marked <=> main_pc \in {"join", "done"})
  /\ [][output_buffer.end_marked =>
          /\ output_buffer'.end_marked
          /\ pipe_obs'.pushed = pipe_obs.pushed
          /\ main_pc' \in {"join", "done"}]_vars
  /\ [][main_pc = "push_end" /\ main_pc' # main_pc =>
          /\ ~output_buffer.end_marked /\ output_buffer'.end_marked
          /\ main_pc' = "join"
          /\ output_buffer'.queue = output_buffer.queue]_vars
\* The worker left the loop after pushing audio, the marker is on the queue
\* behind that audio, and the consumer has been joined.
C27_Witness ==
  /\ main_pc = "done"
  /\ output_buffer.end_marked
  /\ Len(pipe_obs.pushed) > 0
  /\ out_pc = "done"
\* The worker left the loop because the flag was set, with audio still queued
\* in front of the marker.
C27_WitnessFlag ==
  /\ main_pc = "join"
  /\ stop_flag /\ ~pipe_obs.empty_pull
  /\ output_buffer.end_marked
  /\ Len(output_buffer.queue) > 0

(***************************************************************************)
(* The PLL on an empty block, and the numbering of the PPS events.         *)
(***************************************************************************)
\* C28 A call of PilotPhaseLock::process with an empty input leaves m_freq,
\* m_phase, the filter memories, m_pilot_level, m_lock_cnt (and so the locked
\* state), m_pilot_periods, m_pps_cnt and m_sample_cnt as they were; the
\* output block is empty and the list of pending PPS events is cleared.
C28_EmptyBlockNoOp ==
  /\ [](pll_obs.n = 0 => (pll_obs.out = 0 /\ pll.m_pps_events = <<>>))
  /\ [][pll_obs'.n = 0 =>
          /\ pll' = [pll EXCEPT !.m_pps_events = <<>>]
          /\ locked(pll') = locked(pll)
          /\ phasor' = phasor]_vars
\* A locked PLL that has counted PPS events and pilot periods was given an
\* empty block.
C28_Witness ==
  /\ pll_obs.n = 0
  /\ pll_obs.was /\ locked(pll)
  /\ pll.m_pps_cnt > 0
  /\ pll.m_pilot_periods > 0
  /\ pll.m_sample_cnt > 0

\* C30 PPS numbering: m_pilot_periods is in 0 .. pilot_frequency - 1 after
\* every sample; the pending events carry consecutive pps_index values that
\* end at m_pps_cnt - 1, a call adds to m_pps_cnt exactly the number of events
\* it leaves pending while the PLL stays locked and leaves m_pps_cnt at 0
\* otherwise, so the numbering of a locked period is 0, 1, 2, ... and restarts
\* at 0 after a loss of lock; every pending event has a sample_index that is
\* at least the sample count before the call and below the count after it,
\* and increases along the list.
C30_PpsNumbering ==
  /\ [](/\ pll_obs.perok
        /\ 0 <= pll.m_pilot_periods /\ pll.m_pilot_periods < pilot_frequency
        /\ \A k \in 1..Len(pll.m_pps_events) :
             /\ pll.m_pps_events[k].pps_index
                  = pll.m_pps_cnt - Len(pll.m_pps_events) + k - 1
             /\ pll.m_pps_events[k].sample_index < pll.m_sample_cnt
             /\ k > 1 => pll.m_pps_events[k - 1].sample_index
                           < pll.m_pps_events[k].sample_index)
  /\ [][/\ pll'.m_pps_cnt = IF locked(pll') /\ locked(pll)
                            THEN pll.m_pps_cnt + Len(pll'.m_pps_events)
                            ELSE 0
        /\ pll'.m_sample_cnt >= pll.m_sample_cnt
        /\ (pll' # pll \/ pll_obs' # pll_obs) =>
             \A k \in 1..Len(pll'.m_pps_events) :
               pll'.m_pps_events[k].sample_index >= pll.m_sample_cnt]_vars
\* The second PPS event of a locked period is pending, numbered 1, at a
\* sample of the last block.
C30_Witness ==
  /\ locked(pll)
  /\ pll.m_pps_cnt = 2
  /\ Len(pll.m_pps_events) = 1
  /\ pll.m_pps_events[1].pps_index = 1
  /\ pll.m_pps_events[1].sample_index >= pll.m_sample_cnt - pll_obs.n
\* The PLL is locked with no event counted yet, after an earlier block had
\* failed the threshold and reset the counters, and it counts pilot periods.
C30_WitnessRestart ==
  /\ locked(pll)
  /\ pll.m_pps_cnt = 0
  /\ pll_obs.run < pll.m_sample_cnt
  /\ pll.m_pilot_periods > 0

=============================================================================
